---- MODULE Spec2Model ----
(***************************************************************************)
(* Model of src/src/main.rs: the sickle-cell gene-pool simulation.         *)
(*                                                                         *)
(*   SpecFn   the pure functions (get_genes, the selection filter of       *)
(*            run_generation, parse_alleles, generate_alleles) applied to  *)
(*            inputs drawn from bounded sets;                              *)
(*   Spec     one run_simulation(generations) call, from the 75/25 pool;   *)
(*   SpecAny  the same generation loop started from any canonical pool;    *)
(*   SpecMain main's worker threads, channel, receive loop and joins.      *)
(*   SpecMainFair  SpecMain with weak fairness of every thread's steps.    *)
(***************************************************************************)
EXTENDS Integers, Sequences, FiniteSets, TLC

VARIABLES
    \* ---- SpecFn: one pure function applied to one input
    fn_op,        \* last operation applied: "init", "get_genes", "select", "parse", "generate",
                  \* "to_string", "panic"
    fn_src,       \* for "parse": where the parsed pool came from
    fn_pool,      \* the input pool
    fn_genes,     \* the genotypes get_genes returned
    fn_out,       \* the pool produced by the filter or by generate_alleles
    fn_args,      \* the arguments given to generate_alleles
    fn_in,        \* the pool given to parse_alleles
    fn_parsed,    \* the tuple parse_alleles returned
    fn_tie,       \* whether parse_alleles took its rand::random() branch
    fn_str,       \* the string parsed_to_string returned, as a sequence of characters
    \* ---- Spec, SpecAny: one call of run_simulation
    pc,           \* "Stepping" (at the head of the loop), "Selected" (run_generation returned),
                  \* "Done" (returned), "Aborted" (panicked)
    generations,  \* the argument of run_simulation
    gen_num,      \* the loop counter
    alleles,      \* the current pool
    gen,          \* the survivor pool run_generation returned, while the iteration
                  \* that holds it runs or after it panicked; <<>> outside
    summary,      \* (percent_a, percent_s) of the last summary of a survivor pool
    result,       \* the returned pair
    \* ---- SpecMain: main and its worker threads
    m_pc,         \* main's position: "spawn", "recv", "join", "stats", "exit", "panicked"
    spawned,      \* number of workers spawned so far (children.len())
    w_state,      \* per worker: "unspawned", "running", "computed", "finished", "panicked"
    w_result,     \* per worker: the pair run_simulation returned, <<>> before
    senders,      \* number of live Sender handles: main's tx and the workers' clones
    chan,         \* the messages sent and not yet received
    totals,       \* the results main has received
    joined,       \* number of children joined so far
    stats         \* the statistics main computed, <<>> before

fnVars == <<fn_op, fn_src, fn_pool, fn_genes, fn_out, fn_args, fn_in, fn_parsed, fn_tie, fn_str>>

runVars == <<pc, generations, gen_num, alleles, gen, summary, result>>

mainVars == <<m_pc, spawned, w_state, w_result, senders, chan, totals, joined, stats>>

vars == <<fnVars, runVars, mainVars>>

----------------------------------------------------------------------------
\* Bounds of the model

\* longest pool given to the pure functions in SpecFn
MaxLen == 4

\* largest generation count given to run_simulation (GENS_PER_POOL is 100_000)
MaxGens == 3

\* largest generation count of the loop started from an arbitrary pool
MaxAnyGens == 1

\* number of worker threads explored (NUM_POOLS is 20)
MaxPools == 3

\* largest percent_S among the results a worker hands to main
MaxResultS == 1

----------------------------------------------------------------------------
\* Program constants (main.rs lines 6-10)

TOTAL_ALLELES == 100

\* the number of populations, explored up to the bound MaxPools
NUM_POOLS == MaxPools

\* enum Allele { A, S }
Allele == {"A", "S"}

----------------------------------------------------------------------------
\* f32 arithmetic (IEEE-754 binary32, round to nearest, ties to even).
\* A finite non-zero value is <<m, e>>, meaning m * 2^e with
\* 2^23 <= m < 2^24; zero is <<0, 0>>; NaN is <<-1, 0>>.

Pow2(n) == 2 ^ n

\* the smallest and the (exclusive) largest 24-bit significand
MinSig == 2 ^ 23
MaxSig == 2 ^ 24

F32Zero == <<0, 0>>
F32NaN == <<-1, 0>>

\* q plus the fraction num/den (0 <= num < den), rounded to nearest even
RoundEven(q, num, den) ==
    IF 2 * num > den \/ (2 * num = den /\ q % 2 = 1) THEN q + 1 ELSE q

\* renormalise a rounded significand that carried into bit 24
F32Norm(m, e) == IF m = MaxSig THEN <<MinSig, e + 1>> ELSE <<m, e>>

\* long division: shifts quotient bits in until the quotient has 24 bits
RECURSIVE DivBits(_, _, _, _)
DivBits(q, r, n, e) ==
    IF q >= MinSig THEN <<q, r, e>>
    ELSE LET bit == IF 2 * r >= n THEN 1 ELSE 0
         IN  DivBits(2 * q + bit, 2 * r - bit * n, n, e - 1)

\* (a as f32) / (n as f32) for counts 0 <= a <= n; 0.0 / 0.0 is NaN
f32_div(a, n) ==
    IF n = 0 THEN F32NaN
    ELSE IF a = 0 THEN F32Zero
    ELSE LET d == DivBits(a \div n, a % n, n, 0)
         IN  F32Norm(RoundEven(d[1], d[2], n), d[3])

RECURSIVE ShiftOf(_)
ShiftOf(p) == IF p < MaxSig THEN 0 ELSE 1 + ShiftOf(p \div 2)

\* x * (k as f32) for a small positive integer k
f32_mul(x, k) ==
    IF x = F32NaN THEN F32NaN
    ELSE IF x = F32Zero THEN F32Zero
    ELSE LET p  == x[1] * k
             sh == ShiftOf(p)
             d  == Pow2(sh)
         IN  F32Norm(RoundEven(p \div d, p % d, d), x[2] + sh)

\* x as i32: truncates toward zero, NaN becomes 0
f32_as_i32(x) ==
    IF x = F32NaN THEN 0
    ELSE IF x[2] >= 0 THEN x[1] * Pow2(x[2])
    ELSE x[1] \div Pow2(-x[2])

----------------------------------------------------------------------------
\* Helpers on sequences

\* number of elements of seq equal to x: .filter(|&&allele| allele == x).count()
CountOf(seq, x) == Cardinality({i \in 1..Len(seq) : seq[i] = x})

\* .flat_map(|(a, b)| vec![a, b]).collect()
Flatten(genes) == [i \in 1..(2 * Len(genes)) |-> genes[(i + 1) \div 2][2 - (i % 2)]]

\* vec![x; n]
Repeat(x, n) == [i \in 1..n |-> x]

\* the permutations of 1..n
Perms(n) == {p \in [1..n -> 1..n] : \A i, j \in 1..n : p[i] = p[j] => i = j}

\* every outcome of alleles.shuffle(&mut rng)
Shuffles(pool) ==
    {[i \in 1..Len(pool) |-> pool[p[i]]] : p \in Perms(Len(pool))}

----------------------------------------------------------------------------
\* The pure functions

\* get_genes pairing each chunk's first allele with itself
get_genes_first_twice(shuffled) ==
    [c \in 1..(Len(shuffled) \div 2) |-> <<shuffled[2 * c - 1], shuffled[2 * c - 1]>>]

\* get_genes after its assertion, given the outcome of the shuffle
get_genes(shuffled) ==
    [c \in 1..(Len(shuffled) \div 2) |-> <<shuffled[2 * c - 1], shuffled[2 * c]>>]

\* the filter predicate with (S,S) treated like (A,A)
Survives_ss_drawn(g, draw) ==
    CASE g = <<"A", "A">> \/ g = <<"S", "S">> -> draw
      [] g = <<"A", "S">> \/ g = <<"S", "A">> -> TRUE

\* the filter predicate letting (S,S) survive
Survives_ss_kept(g, draw) ==
    CASE g = <<"A", "A">> -> draw
      [] g = <<"A", "S">> \/ g = <<"S", "A">> \/ g = <<"S", "S">> -> TRUE

\* the filter predicate drawing for the heterozygotes as well
Survives_as_drawn(g, draw) ==
    CASE g = <<"A", "A">> \/ g = <<"A", "S">> \/ g = <<"S", "A">> -> draw
      [] g = <<"S", "S">> -> FALSE

\* the filter predicate with (S,A) treated like (S,S)
Survives_sa_dies(g, draw) ==
    CASE g = <<"A", "A">> -> draw
      [] g = <<"A", "S">> -> TRUE
      [] g = <<"S", "A">> \/ g = <<"S", "S">> -> FALSE

\* the filter predicate of run_generation; draw is rng.gen::<f64>() < MALARIA_SURVIVAL
Survives(g, draw) ==
    CASE g = <<"A", "A">> -> draw
      [] g = <<"A", "S">> \/ g = <<"S", "A">> -> TRUE
      [] g = <<"S", "S">> -> FALSE

\* genes.into_iter().filter(..).flat_map(..).collect(); draws[i] is the draw of genotype i
Survivors(genes, draws) ==
    LET drawn   == [i \in 1..Len(genes) |-> <<genes[i], draws[i]>>]
        Keep(d) == Survives(d[1], d[2])
        kept    == SelectSeq(drawn, Keep)
    IN  Flatten([i \in 1..Len(kept) |-> kept[i][1]])

\* the counts and the two truncated percentages of parse_alleles, before its
\* branch; the assertion real_a + real_s = len cannot fail for a two-valued enum
Truncated(pool) ==
    LET real_a    == CountOf(pool, "A")
        real_s    == CountOf(pool, "S")
        percent_a == f32_div(real_a, Len(pool))
        percent_s == f32_div(real_s, Len(pool))
    IN  <<f32_as_i32(f32_mul(percent_a, 100)), f32_as_i32(f32_mul(percent_s, 100)),
          real_a, real_s>>

\* parse_alleles takes its else branch and calls rand::random()
TieBreak(pool) == LET t == Truncated(pool) IN t[1] + t[2] # 100

\* the branch of parse_alleles giving its coin's side every missing point
Branch_fill(t, coin) ==
    IF t[1] + t[2] = 100 THEN t
    ELSE IF coin THEN <<100 - t[2], t[2], t[3], t[4]>>
    ELSE <<t[1], 100 - t[1], t[3], t[4]>>

\* the branch of parse_alleles adding the missing point to A only
Branch_no_point(t, coin) ==
    IF t[1] + t[2] = 100 THEN t
    ELSE IF coin THEN <<t[1] + 1, t[2], t[3], t[4]>>
    ELSE t

\* lines 146-155 of parse_alleles; coin is the outcome of rand::random()
Branch(t, coin) ==
    LET new_a  == t[1]
        new_s  == t[2]
        real_a == t[3]
        real_s == t[4]
    IN  IF new_a + new_s = 100 THEN <<new_a, new_s, real_a, real_s>>
        ELSE IF coin THEN <<new_a + 1, new_s, real_a, real_s>>
        ELSE <<new_a, new_s + 1, real_a, real_s>>

\* parse_alleles; coin is the outcome of rand::random()
parse_alleles(pool, coin) == Branch(Truncated(pool), coin)

\* the characters of {} for an i32: its decimal digits, after a minus sign if negative
RECURSIVE Digits(_)
Digits(n) ==
    IF n < 0 THEN <<"-">> \o Digits(-n)
    ELSE IF n < 10 THEN <<<<"0", "1", "2", "3", "4", "5", "6", "7", "8", "9">>[n + 1]>>
    ELSE Digits(n \div 10) \o Digits(n % 10)

\* parsed_to_string: format!("A: {} ({}%), S: {} ({}%)", parsed.2, parsed.0, parsed.1, parsed.3)
parsed_to_string(parsed) ==
    <<"A", ":", " ">> \o Digits(parsed[3]) \o <<" ", "(">> \o Digits(parsed[1])
    \o <<"%", ")", ",", " ", "S", ":", " ">> \o Digits(parsed[2])
    \o <<" ", "(">> \o Digits(parsed[4]) \o <<"%", ")">>

\* generate_alleles building one S too few
generate_alleles_short(a, s) == Repeat("A", a) \o Repeat("S", s - 1)

\* generate_alleles after its assertion
generate_alleles(a, s) == Repeat("A", a) \o Repeat("S", s)

----------------------------------------------------------------------------
\* SpecFn: the pure functions applied to bounded inputs

Pools(n) == UNION {[1..k -> Allele] : k \in 0..n}

\* arguments for generate_alleles: every split of TOTAL_ALLELES, and sums off by one
GenerateArgs ==
    {<<a, TOTAL_ALLELES - a + d>> : a \in 0..TOTAL_ALLELES, d \in {0, 1}}

FnInit ==
    /\ fn_op = "init"
    /\ fn_src = "none"
    /\ \/ fn_pool \in Pools(MaxLen) /\ fn_args = <<>>
       \/ fn_pool = <<>> /\ fn_args \in GenerateArgs
    /\ fn_genes = <<>>
    /\ fn_out = <<>>
    /\ fn_in = <<>>
    /\ fn_parsed = <<>>
    /\ fn_tie = FALSE
    /\ fn_str = <<>>
    \* no run and no thread is explored
    /\ pc = "Idle"
    /\ generations = 0
    /\ gen_num = 0
    /\ alleles = <<>>
    /\ gen = <<>>
    /\ summary = <<>>
    /\ result = <<>>
    /\ m_pc = "idle"
    /\ spawned = 0
    /\ w_state = <<>>
    /\ w_result = <<>>
    /\ senders = 0
    /\ chan = <<>>
    /\ totals = <<>>
    /\ joined = 0
    /\ stats = <<>>

\* get_genes(fn_pool): the assertion on an even length, the shuffle, the chunks
FnGetGenes ==
    /\ fn_op = "init" /\ fn_args = <<>>
    /\ IF Len(fn_pool) % 2 # 0
       THEN /\ fn_op' = "panic"
            /\ UNCHANGED fn_genes
       ELSE /\ \E shuffled \in Shuffles(fn_pool) : fn_genes' = get_genes(shuffled)
            /\ fn_op' = "get_genes"
    /\ UNCHANGED <<fn_src, fn_pool, fn_out, fn_args, fn_in, fn_parsed, fn_tie, fn_str>>
    /\ UNCHANGED <<runVars, mainVars>>

\* the selection filter of run_generation applied to fn_genes
FnSelect ==
    /\ fn_op = "get_genes"
    /\ \E draws \in [1..Len(fn_genes) -> BOOLEAN] : fn_out' = Survivors(fn_genes, draws)
    /\ fn_op' = "select"
    /\ UNCHANGED <<fn_src, fn_pool, fn_genes, fn_args, fn_in, fn_parsed, fn_tie, fn_str>>
    /\ UNCHANGED <<runVars, mainVars>>

\* generate_alleles(a, s): the assertion, then the pool
FnGenerate ==
    /\ fn_op = "init" /\ fn_args # <<>>
    /\ IF fn_args[1] + fn_args[2] # TOTAL_ALLELES
       THEN fn_op' = "panic" /\ UNCHANGED fn_out
       ELSE fn_op' = "generate" /\ fn_out' = generate_alleles(fn_args[1], fn_args[2])
    /\ UNCHANGED <<fn_src, fn_pool, fn_genes, fn_args, fn_in, fn_parsed, fn_tie, fn_str>>
    /\ UNCHANGED <<runVars, mainVars>>

\* parse_alleles applied to the input pool, to a survivor pool or to a generated pool
FnParse ==
    /\ \/ fn_op = "init" /\ fn_args = <<>>
       \/ fn_op \in {"select", "generate"}
    /\ LET pool == IF fn_op = "init" THEN fn_pool ELSE fn_out
       IN  /\ fn_in' = pool
           /\ fn_tie' = TieBreak(pool)
           /\ \E coin \in BOOLEAN : fn_parsed' = parse_alleles(pool, coin)
    /\ fn_src' = fn_op
    /\ fn_op' = "parse"
    /\ UNCHANGED <<fn_pool, fn_genes, fn_out, fn_args, fn_str>>
    /\ UNCHANGED <<runVars, mainVars>>

\* parsed_to_string applied to the tuple parse_alleles returned
FnToString ==
    /\ fn_op = "parse"
    /\ fn_str' = parsed_to_string(fn_parsed)
    /\ fn_op' = "to_string"
    /\ UNCHANGED <<fn_src, fn_pool, fn_genes, fn_out, fn_args, fn_in, fn_parsed, fn_tie>>
    /\ UNCHANGED <<runVars, mainVars>>

FnNext == FnGetGenes \/ FnSelect \/ FnGenerate \/ FnParse \/ FnToString

SpecFn == FnInit /\ [][FnNext]_vars

----------------------------------------------------------------------------
\* Spec: run_simulation(generations); a loop iteration is two steps, the
\* call of run_generation and the summary and regeneration that follow it.
\*
\* A 100-allele pool has too many shuffles to enumerate.  The survivor pool
\* is only ever given to parse_alleles, which counts alleles, so the run is
\* explored over one representative shuffle per number of (S,S) pairs and
\* one representative vector of survival draws per number of surviving
\* (A,A) genotypes; PairingsCovered checks on the pools of SpecFn that
\* these representatives cover the counts of every shuffle and every draw.

\* one outcome of the shuffle for each number k of (S,S) pairs it can make:
\* k pairs (S,S), then s - 2k pairs (A,S), then pairs (A,A)
ShuffleClasses(pool) ==
    LET a == CountOf(pool, "A")
        s == CountOf(pool, "S")
    IN  {[i \in 1..Len(pool) |->
             IF i <= 2 * k THEN "S"
             ELSE IF i <= 2 * (s - k) THEN (IF i % 2 = 1 THEN "A" ELSE "S")
             ELSE "A"] :
           k \in {x \in 0..(s \div 2) : s - 2 * x <= a}}

\* one vector of survival draws for each number of surviving (A,A) genotypes
DrawClasses(genes) ==
    {[i \in 1..Len(genes) |-> i <= c] :
        c \in {0} \cup {i \in 1..Len(genes) : genes[i] = <<"A", "A">>}}

\* run_generation panics: get_genes' assertion or the assertion on genes.len()
run_generation_panics(pool) ==
    \/ Len(pool) % 2 # 0
    \/ Len(pool) \div 2 # TOTAL_ALLELES \div 2

\* run_generation, given the outcome of the shuffle and the survival draws
run_generation(shuffled, draws) == Survivors(get_genes(shuffled), draws)

RunInit ==
    /\ pc = "Stepping"
    /\ generations \in 0..MaxGens
    /\ gen_num = 0
    /\ alleles = generate_alleles(75, 25)
    /\ gen = <<>>
    /\ summary = <<>>
    /\ result = <<>>
    \* no pure function is applied on its own and no thread is explored
    /\ fn_op = "idle"
    /\ fn_src = "none"
    /\ fn_pool = <<>>
    /\ fn_genes = <<>>
    /\ fn_out = <<>>
    /\ fn_args = <<>>
    /\ fn_in = <<>>
    /\ fn_parsed = <<>>
    /\ fn_tie = FALSE
    /\ fn_str = <<>>
    /\ m_pc = "idle"
    /\ spawned = 0
    /\ w_state = <<>>
    /\ w_result = <<>>
    /\ senders = 0
    /\ chan = <<>>
    /\ totals = <<>>
    /\ joined = 0
    /\ stats = <<>>

\* line 75: gen = run_generation(alleles)
Select ==
    /\ pc = "Stepping"
    /\ gen_num < generations
    /\ IF run_generation_panics(alleles)
       THEN /\ pc' = "Aborted"
            /\ UNCHANGED gen
       ELSE /\ \E shuffled \in ShuffleClasses(alleles) :
               \E draws \in DrawClasses(get_genes(shuffled)) :
                  gen' = run_generation(shuffled, draws)
            /\ pc' = "Selected"
    /\ UNCHANGED <<generations, gen_num, alleles, summary, result>>
    /\ UNCHANGED <<fnVars, mainVars>>

\* the summary taken of the pool before selection instead of the survivors
Regenerate_from_pool ==
    /\ pc = "Selected"
    /\ LET t == Truncated(alleles)
       IN  \E coin \in BOOLEAN :
              LET parsed == Branch(t, coin)
              IN  /\ summary' = <<parsed[1], parsed[2]>>
                  /\ IF parsed[1] + parsed[2] = TOTAL_ALLELES
                     THEN /\ alleles' = generate_alleles(parsed[1], parsed[2])
                          /\ gen_num' = gen_num + 1
                          /\ gen' = <<>>
                          /\ pc' = "Stepping"
                     ELSE /\ pc' = "Aborted"
                          /\ UNCHANGED <<gen_num, alleles, gen>>
    /\ UNCHANGED <<generations, result>>
    /\ UNCHANGED <<fnVars, mainVars>>

\* lines 76-86: the summary of the survivors, then the next pool; a panic of
\* generate_alleles leaves the iteration's variables as they were
Regenerate ==
    /\ pc = "Selected"
    /\ LET t == Truncated(gen)
       IN  \E coin \in BOOLEAN :
              LET parsed == Branch(t, coin)
              IN  /\ summary' = <<parsed[1], parsed[2]>>
                  /\ IF parsed[1] + parsed[2] = TOTAL_ALLELES
                     THEN /\ alleles' = generate_alleles(parsed[1], parsed[2])
                          /\ gen_num' = gen_num + 1
                          /\ gen' = <<>>
                          /\ pc' = "Stepping"
                     ELSE /\ pc' = "Aborted"
                          /\ UNCHANGED <<gen_num, alleles, gen>>
    /\ UNCHANGED <<generations, result>>
    /\ UNCHANGED <<fnVars, mainVars>>

\* after the loop (lines 88-91): the pool is parsed again and the pair returned
Finish ==
    /\ pc = "Stepping"
    /\ gen_num >= generations
    /\ \E coin \in BOOLEAN :
          LET parsed == parse_alleles(alleles, coin)
          IN  result' = <<parsed[1], parsed[2]>>
    /\ pc' = "Done"
    /\ UNCHANGED <<generations, gen_num, alleles, gen, summary>>
    /\ UNCHANGED <<fnVars, mainVars>>

Next == Select \/ Regenerate \/ Finish

Spec == RunInit /\ [][Next]_vars

----------------------------------------------------------------------------
\* SpecAny: the generation loop of run_simulation started from any pool
\* generate_alleles can build

AnyInit ==
    /\ pc = "Stepping"
    /\ generations \in 0..MaxAnyGens
    /\ gen_num = 0
    /\ \E a \in 0..TOTAL_ALLELES : alleles = generate_alleles(a, TOTAL_ALLELES - a)
    /\ gen = <<>>
    /\ summary = <<>>
    /\ result = <<>>
    \* no pure function is applied on its own and no thread is explored
    /\ fn_op = "idle"
    /\ fn_src = "none"
    /\ fn_pool = <<>>
    /\ fn_genes = <<>>
    /\ fn_out = <<>>
    /\ fn_args = <<>>
    /\ fn_in = <<>>
    /\ fn_parsed = <<>>
    /\ fn_tie = FALSE
    /\ fn_str = <<>>
    /\ m_pc = "idle"
    /\ spawned = 0
    /\ w_state = <<>>
    /\ w_result = <<>>
    /\ senders = 0
    /\ chan = <<>>
    /\ totals = <<>>
    /\ joined = 0
    /\ stats = <<>>

SpecAny == AnyInit /\ [][Next]_vars

----------------------------------------------------------------------------
\* SpecMain: main (lines 12-57) and the worker threads it spawns

Workers == 1..NUM_POOLS

\* what the call run_simulation(GENS_PER_POOL) in a worker can do: panic, or
\* return a pair of percentages; the pairs are bounded by MaxResultS
RunOutcomes ==
    {[panic |-> TRUE, pair |-> <<>>]}
    \cup {[panic |-> FALSE, pair |-> <<TOTAL_ALLELES - s, s>>] : s \in 0..MaxResultS}

MainInit ==
    /\ m_pc = "spawn"
    /\ spawned = 0
    /\ w_state = [w \in Workers |-> "unspawned"]
    /\ w_result = [w \in Workers |-> <<>>]
    /\ senders = 1
    /\ chan = <<>>
    /\ totals = <<>>
    /\ joined = 0
    /\ stats = <<>>
    \* no pure function is applied on its own and no single run is explored
    /\ fn_op = "idle"
    /\ fn_src = "none"
    /\ fn_pool = <<>>
    /\ fn_genes = <<>>
    /\ fn_out = <<>>
    /\ fn_args = <<>>
    /\ fn_in = <<>>
    /\ fn_parsed = <<>>
    /\ fn_tie = FALSE
    /\ fn_str = <<>>
    /\ pc = "Idle"
    /\ generations = 0
    /\ gen_num = 0
    /\ alleles = <<>>
    /\ gen = <<>>
    /\ summary = <<>>
    /\ result = <<>>

\* the process lives until main returns or panics
Alive == m_pc \notin {"exit", "panicked"}

\* lines 16-22: one iteration of the spawning loop (NUM_POOLS >= 1): tx is
\* cloned and the clone moved into the new thread
Spawn ==
    /\ m_pc = "spawn"
    /\ spawned < NUM_POOLS
    /\ spawned' = spawned + 1
    /\ w_state' = [w_state EXCEPT ![spawned + 1] = "running"]
    /\ senders' = senders + 1
    /\ m_pc' = IF spawned + 1 = NUM_POOLS THEN "recv" ELSE "spawn"
    /\ UNCHANGED <<w_result, chan, totals, joined, stats>>
    /\ UNCHANGED <<fnVars, runVars>>

\* line 19, the call: run_simulation returns or panics; a panic unwinds the
\* closure and drops its Sender
WorkerRun(w) ==
    /\ Alive
    /\ w_state[w] = "running"
    /\ \E o \in RunOutcomes :
          IF o.panic
          THEN /\ w_state' = [w_state EXCEPT ![w] = "panicked"]
               /\ senders' = senders - 1
               /\ UNCHANGED w_result
          ELSE /\ w_state' = [w_state EXCEPT ![w] = "computed"]
               /\ w_result' = [w_result EXCEPT ![w] = o.pair]
               /\ UNCHANGED senders
    /\ UNCHANGED <<m_pc, spawned, chan, totals, joined, stats>>
    /\ UNCHANGED <<fnVars, runVars>>

\* line 19, tx.send(..).unwrap(), then the closure returns and drops its Sender;
\* the Receiver lives as long as main, so the send cannot fail
WorkerSend(w) ==
    /\ Alive
    /\ w_state[w] = "computed"
    /\ chan' = Append(chan, w_result[w])
    /\ w_state' = [w_state EXCEPT ![w] = "finished"]
    /\ senders' = senders - 1
    /\ UNCHANGED <<m_pc, spawned, w_result, totals, joined, stats>>
    /\ UNCHANGED <<fnVars, runVars>>

\* the receive loop running one iteration too many
Recv_one_more ==
    /\ m_pc = "recv"
    /\ chan # <<>> \/ senders = 0
    /\ IF chan # <<>>
       THEN /\ totals' = Append(totals, Head(chan))
            /\ chan' = Tail(chan)
            /\ m_pc' = IF Len(totals) + 1 = NUM_POOLS + 1 THEN "join" ELSE "recv"
       ELSE /\ m_pc' = "panicked"
            /\ UNCHANGED <<totals, chan>>
    /\ UNCHANGED <<spawned, w_state, w_result, senders, joined, stats>>
    /\ UNCHANGED <<fnVars, runVars>>

\* the receive loop running one iteration short
Recv_one_short ==
    /\ m_pc = "recv"
    /\ chan # <<>> \/ senders = 0
    /\ IF chan # <<>>
       THEN /\ totals' = Append(totals, Head(chan))
            /\ chan' = Tail(chan)
            /\ m_pc' = IF Len(totals) + 1 >= NUM_POOLS - 1 THEN "join" ELSE "recv"
       ELSE /\ m_pc' = "panicked"
            /\ UNCHANGED <<totals, chan>>
    /\ UNCHANGED <<spawned, w_state, w_result, senders, joined, stats>>
    /\ UNCHANGED <<fnVars, runVars>>

\* line 26: rx.recv().unwrap() takes a message, blocks while the channel is
\* empty and a Sender lives, and panics once it is empty and no Sender lives
Recv ==
    /\ m_pc = "recv"
    /\ chan # <<>> \/ senders = 0
    /\ IF chan # <<>>
       THEN /\ totals' = Append(totals, Head(chan))
            /\ chan' = Tail(chan)
            /\ m_pc' = IF Len(totals) + 1 = NUM_POOLS THEN "join" ELSE "recv"
       ELSE /\ m_pc' = "panicked"
            /\ UNCHANGED <<totals, chan>>
    /\ UNCHANGED <<spawned, w_state, w_result, senders, joined, stats>>
    /\ UNCHANGED <<fnVars, runVars>>

\* line 30: child.join().unwrap() waits for the next child and panics if it panicked
Join ==
    /\ m_pc = "join"
    /\ w_state[joined + 1] \in {"finished", "panicked"}
    /\ IF w_state[joined + 1] = "panicked"
       THEN /\ m_pc' = "panicked"
            /\ UNCHANGED joined
       ELSE /\ joined' = joined + 1
            /\ m_pc' = IF joined + 1 = NUM_POOLS THEN "stats" ELSE "join"
    /\ UNCHANGED <<spawned, w_state, w_result, senders, chan, totals, stats>>
    /\ UNCHANGED <<fnVars, runVars>>

\* data.sort()
RECURSIVE Sorted(_)
Sorted(data) ==
    IF data = <<>> THEN <<>>
    ELSE LET lo == CHOOSE i \in 1..Len(data) : \A j \in 1..Len(data) : data[i] <= data[j]
         IN  <<data[lo]>> \o Sorted([k \in 1..(Len(data) - 1) |->
                                        IF k < lo THEN data[k] ELSE data[k + 1]])

\* twice the median (lines 59-70), to stay in the integers
median2(data) ==
    LET d == Sorted(data)
    IN  IF Len(d) % 2 = 0 THEN d[Len(d) \div 2] + d[Len(d) \div 2 + 1]
        ELSE 2 * d[Len(d) \div 2 + 1]

RECURSIVE Sum(_)
Sum(data) == IF data = <<>> THEN 0 ELSE Head(data) + Sum(Tail(data))

Min(data) == CHOOSE x \in {data[i] : i \in 1..Len(data)} : \A i \in 1..Len(data) : x <= data[i]
Max(data) == CHOOSE x \in {data[i] : i \in 1..Len(data)} : \A i \in 1..Len(data) : x >= data[i]

\* lines 35-56: the statistics of one of the two series (k = 1 for A, 2 for S);
\* the average is kept as the pair (sum, len)
Statistics(k) ==
    LET data == [i \in 1..Len(totals) |-> totals[i][k]]
    IN  [median2 |-> median2(data), sum |-> Sum(data), len |-> Len(data),
         min |-> Min(data), max |-> Max(data), range |-> Max(data) - Min(data)]

\* lines 33-57: the statistics are computed and printed, main returns
Stats ==
    /\ m_pc = "stats"
    /\ stats' = <<Statistics(1), Statistics(2)>>
    /\ m_pc' = "exit"
    /\ UNCHANGED <<spawned, w_state, w_result, senders, chan, totals, joined>>
    /\ UNCHANGED <<fnVars, runVars>>

MainNext ==
    \/ Spawn
    \/ \E w \in Workers : WorkerRun(w)
    \/ \E w \in Workers : WorkerSend(w)
    \/ Recv
    \/ Join
    \/ Stats

SpecMain == MainInit /\ [][MainNext]_vars

\* the scheduler runs every thread that can take a step: main and each
\* worker are operating-system threads, none of them waits on a lock
SpecMainFair ==
    /\ MainInit
    /\ [][MainNext]_vars
    /\ WF_vars(Spawn)
    /\ WF_vars(Recv)
    /\ WF_vars(Join)
    /\ WF_vars(Stats)
    /\ \A w \in Workers : WF_vars(WorkerRun(w)) /\ WF_vars(WorkerSend(w))

----------------------------------------------------------------------------
\* The representative shuffles and draws of Spec cover every shuffle and
\* every vector of draws: whatever pool the filter produced in SpecFn, some
\* representative produces a pool with the same number of each allele.
PairingsCovered ==
    fn_op = "select" =>
        \E shuffled \in ShuffleClasses(fn_pool) :
        \E draws \in DrawClasses(get_genes(shuffled)) :
        \A x \in Allele :
            CountOf(run_generation(shuffled, draws), x) = CountOf(fn_out, x)

----------------------------------------------------------------------------
\* Claims

\* C1: once an allele's percentage is 0 in a summary of a run, it is 0 in
\* every later summary of that run (in particular a 100% A / 0% S pool stays
\* 100% A / 0% S).
C1_ZeroIsAbsorbing ==
    [][\A k \in {1, 2} : (summary # <<>> /\ summary[k] = 0) => summary'[k] = 0]_vars

\* C2: for every pool, the empty one included, parse_alleles returns
\* percentages that sum to 100 and counts that sum to the pool's length.
C2_SummarySums ==
    fn_op = "parse" =>
        /\ fn_parsed[1] + fn_parsed[2] = 100
        /\ fn_parsed[3] + fn_parsed[4] = Len(fn_in)

\* main waits in rx.recv() for a message that no thread is left to send
BlockedForever ==
    /\ m_pc = "recv"
    /\ chan = <<>>
    /\ senders > 0
    /\ \A w \in Workers : w_state[w] \in {"finished", "panicked"}

\* C3: when a worker's run_simulation panics, main neither blocks forever in
\* rx.recv() nor goes on to the statistics.
C3_PanicSurfaces ==
    (\E w \in Workers : w_state[w] = "panicked") =>
        /\ ~BlockedForever
        /\ m_pc \notin {"stats", "exit"}

\* C4: a run leaves its loop only by count: it ends in Done, after exactly
\* `generations` generation steps, whatever the random outcomes.
C4_EndsByCount ==
    pc \notin {"Stepping", "Selected"} => (pc = "Done" /\ gen_num = generations)

\* the pool the run started from is 100% S / 0% A and a generation is asked for
AllSStart ==
    /\ gen_num = 0
    /\ generations >= 1
    /\ alleles = generate_alleles(0, TOTAL_ALLELES)

\* C5: from a 100% S pool, the first generation pairs the pool into 50 (S,S)
\* genotypes, run_generation returns the empty pool, the percentages of the
\* empty pool do not sum to TOTAL_ALLELES, and the run aborts in
\* generate_alleles without a next pool or a result.
C5_AllSAborts ==
    AllSStart =>
        /\ \A shuffled \in ShuffleClasses(alleles) :
              get_genes(shuffled) = Repeat(<<"S", "S">>, TOTAL_ALLELES \div 2)
        /\ pc \in {"Stepping", "Selected", "Aborted"}
        /\ pc # "Stepping" => gen = <<>>
        /\ pc = "Selected" =>
              \A coin \in BOOLEAN :
                 parse_alleles(gen, coin)[1] + parse_alleles(gen, coin)[2] # TOTAL_ALLELES
        /\ pc = "Aborted" => summary[1] + summary[2] # TOTAL_ALLELES
        /\ result = <<>>

C5_Witness ==
    AllSStart /\ pc = "Aborted" /\ gen = <<>> /\ summary # <<>>

\* C6: a completed run returns the percentages of the summary of the last
\* generation's survivors, and they sum to 100; with no generation it
\* returns the initial (75, 25).
C6_ResultIsLastSummary ==
    pc = "Done" =>
        IF generations >= 1
        THEN result = summary /\ result[1] + result[2] = 100
        ELSE result = <<75, 25>>

\* C7: main reaches the statistics only after it received exactly NUM_POOLS
\* results, one from each worker: every worker has sent and finished, nothing
\* is left in the channel, and the results received are, as a multiset, the
\* results the workers computed, in whatever order they arrived.
C7_StatsAfterAll ==
    m_pc \in {"stats", "exit"} =>
        /\ Len(totals) = NUM_POOLS
        /\ chan = <<>>
        /\ \A w \in Workers : w_state[w] = "finished"
        /\ \A w \in Workers :
              CountOf(totals, w_result[w]) = Cardinality({v \in Workers : w_result[v] = w_result[w]})

C7_Witness ==
    /\ m_pc = "exit"
    /\ stats # <<>>
    /\ \E w \in Workers : totals[w] # w_result[w]

\* C8: for a pool of even length N, get_genes returns N/2 genotypes whose
\* alleles are, as a multiset, the alleles of the pool, for every shuffle.
C8_GenesPartitionPool ==
    fn_op = "get_genes" =>
        /\ 2 * Len(fn_genes) = Len(fn_pool)
        /\ \A x \in Allele : CountOf(Flatten(fn_genes), x) = CountOf(fn_pool, x)

C8_Witness ==
    /\ fn_op = "get_genes"
    /\ Len(fn_pool) >= 4
    /\ Flatten(fn_genes) # fn_pool
    /\ \A x \in Allele : CountOf(fn_pool, x) > 0

\* C9: for every (percent_A, percent_S) summing to 100, parse_alleles of the
\* pool generate_alleles builds returns the same percentages, with the counts
\* equal to them, without taking the tie-break branch.
C9_RoundTrip ==
    (fn_op = "parse" /\ fn_src = "generate") =>
        /\ Len(fn_in) = TOTAL_ALLELES
        /\ ~fn_tie
        /\ fn_parsed = <<fn_args[1], fn_args[2], fn_args[1], fn_args[2]>>

AllGenes(g) == \A i \in 1..Len(fn_genes) : fn_genes[i] \in g

\* C10: the survivor pool has even length, at most twice the number of
\* genotypes; it is empty when every genotype is (S,S) and has every allele
\* when every genotype is (A,S) or (S,A).
C10_SurvivorLength ==
    fn_op = "select" =>
        /\ Len(fn_out) % 2 = 0
        /\ Len(fn_out) <= 2 * Len(fn_genes)
        /\ AllGenes({<<"S", "S">>}) => Len(fn_out) = 0
        /\ AllGenes({<<"A", "S">>, <<"S", "A">>}) => Len(fn_out) = 2 * Len(fn_genes)

C10_Witness ==
    /\ fn_op = "select"
    /\ Len(fn_genes) >= 2
    /\ \E i \in 1..Len(fn_genes) : fn_genes[i] = <<"A", "A">>
    /\ Len(fn_out) = 2 * Len(fn_genes) - 2

\* the indices of the genotypes of fn_genes that are in the set g
GenesIn(g) == {i \in 1..Len(fn_genes) : fn_genes[i] \in g}

\* both alleles of the genotypes of fn_genes whose index is in keep, in order
RECURSIVE WholeGenotypes(_, _)
WholeGenotypes(keep, i) ==
    IF i > Len(fn_genes) THEN <<>>
    ELSE (IF i \in keep THEN fn_genes[i] ELSE <<>>) \o WholeGenotypes(keep, i + 1)

\* C11: the survivor pool is, in the genotypes' order, both alleles of every
\* (A,S)/(S,A) genotype and of some subset of the (A,A) genotypes and no
\* allele of an (S,S) genotype; every subset of the (A,A) genotypes can be
\* the one that survives.
C11_WholeGenotypes ==
    LET het == GenesIn({<<"A", "S">>, <<"S", "A">>})
        aa  == GenesIn({<<"A", "A">>})
    IN  /\ fn_op = "select" =>
              \E kept \in SUBSET aa : fn_out = WholeGenotypes(het \cup kept, 1)
        /\ fn_op = "get_genes" =>
              \A kept \in SUBSET aa :
                 \E draws \in [1..Len(fn_genes) -> BOOLEAN] :
                    Survivors(fn_genes, draws) = WholeGenotypes(het \cup kept, 1)

C11_Witness ==
    /\ fn_op = "select"
    /\ fn_genes \in {<<<<"A", "A">>, <<"S", "A">>>>, <<<<"S", "S">>, <<"S", "A">>>>}
    /\ fn_out = <<"S", "A">>

\* C12: the pool run_simulation hands to run_generation always has exactly
\* TOTAL_ALLELES alleles, so neither get_genes' assertion on an even length
\* nor run_generation's assertion on TOTAL_ALLELES / 2 genotypes fails,
\* whatever number of individuals survived the generation before.
C12_PoolIsCanonical ==
    /\ Len(alleles) = TOTAL_ALLELES
    /\ ~run_generation_panics(alleles)
    /\ \A shuffled \in ShuffleClasses(alleles) :
          Len(get_genes(shuffled)) = TOTAL_ALLELES \div 2
    /\ pc = "Aborted" => summary # <<>>

C12_Witness ==
    /\ pc = "Selected"
    /\ gen_num >= 1
    /\ Len(gen) \notin {0, TOTAL_ALLELES}

\* C13: for a non-empty pool the percentages truncated toward zero,
\* floor(100 * count / len), sum to 100 or to 99; when they sum to 100
\* parse_alleles returns them without a random draw, and when they sum to 99
\* it returns them with one point added to one of the two, either one
\* according to the draw alone.
C13_TruncateThenTieBreak ==
    (fn_op = "parse" /\ fn_in # <<>>) =>
        LET n  == Len(fn_in)
            fa == (100 * CountOf(fn_in, "A")) \div n
            fs == (100 * CountOf(fn_in, "S")) \div n
        IN  /\ fa + fs \in {99, 100}
            /\ fa + fs = 100 =>
                  /\ ~fn_tie
                  /\ <<fn_parsed[1], fn_parsed[2]>> = <<fa, fs>>
            /\ fa + fs = 99 =>
                  /\ fn_tie
                  /\ <<fn_parsed[1], fn_parsed[2]>> \in {<<fa + 1, fs>>, <<fa, fs + 1>>}
                  /\ parse_alleles(fn_in, TRUE)[1] = fa + 1
                  /\ parse_alleles(fn_in, FALSE)[2] = fs + 1

\* C14: a generation step builds the next pool from the percentages of the
\* survivor pool and from nothing else: the summary is a summary of the
\* survivors, and the next pool is summary[1] copies of A followed by
\* summary[2] copies of S, whatever the size of the survivor pool.
C14_NextPoolFromSurvivors ==
    [][(pc = "Selected" /\ pc' = "Stepping") =>
          /\ \E coin \in BOOLEAN :
                summary' = <<parse_alleles(gen, coin)[1], parse_alleles(gen, coin)[2]>>
          /\ Len(alleles') = TOTAL_ALLELES
          /\ \A i \in 1..TOTAL_ALLELES :
                alleles'[i] = IF i <= summary'[1] THEN "A" ELSE "S"]_vars

C14_Witness ==
    /\ pc = "Stepping"
    /\ gen_num = 1
    /\ summary = <<75, 25>>
    /\ CountOf(alleles, "A") = 75

\* C15: parsed_to_string renders a summary as
\* "A: {count_A} ({percent_A}%), S: {count_S} ({percent_S}%)": before each
\* parenthesis the allele's count, inside it the allele's percentage.
C15_SummaryString ==
    fn_op = "to_string" =>
        fn_str = <<"A", ":", " ">> \o Digits(CountOf(fn_in, "A"))
                 \o <<" ", "(">> \o Digits(fn_parsed[1]) \o <<"%", ")">>
                 \o <<",", " ", "S", ":", " ">> \o Digits(CountOf(fn_in, "S"))
                 \o <<" ", "(">> \o Digits(fn_parsed[2]) \o <<"%", ")">>

\* C16: if every worker's run completes, main eventually has received all
\* NUM_POOLS results, joined every worker and returned; nothing deadlocks,
\* although main's own Sender lives on while it receives.
C16_AllCompleteTerminates ==
    <>(\/ \E w \in Workers : w_state[w] = "panicked"
       \/ /\ m_pc = "exit"
          /\ Len(totals) = NUM_POOLS
          /\ joined = NUM_POOLS)

C16_Witness ==
    /\ m_pc = "exit"
    /\ joined = NUM_POOLS
    /\ senders = 1
    /\ \A w \in Workers : w_state[w] = "finished"

\* C17: after every completed generation step, from any starting pool, the
\* summary has percent_S <= 50 and percent_A >= 50, so the next pool is never
\* without A.
C17_AtMostHalfS ==
    (pc = "Stepping" /\ gen_num >= 1) =>
        /\ summary[2] <= 50
        /\ summary[1] >= 50
        /\ CountOf(alleles, "A") >= 50

C17_Witness ==
    /\ pc = "Stepping"
    /\ gen_num = 1
    /\ summary = <<50, 50>>

\* C18: a generation step aborts in generate_alleles exactly when the
\* survivor pool is empty; for a non-empty survivor pool the percentages sum
\* to TOTAL_ALLELES and the next pool is produced.
C18_AbortIffEmpty ==
    [][pc = "Selected" =>
          /\ pc' = "Aborted" <=> gen = <<>>
          /\ gen # <<>> =>
                /\ summary'[1] + summary'[2] = TOTAL_ALLELES
                /\ pc' = "Stepping"
                /\ gen_num' = gen_num + 1
                /\ alleles' = generate_alleles(summary'[1], summary'[2])]_vars

C18_Witness ==
    /\ pc = "Aborted"
    /\ gen = <<>>
    /\ CountOf(alleles, "A") > 0
    /\ CountOf(alleles, "S") > 0

\* C19: a generation step from a pool with an odd number of S alleles gives
\* a non-empty survivor pool, with an S in it, and does not abort; the 75/25
\* pool is such a pool.
C19_OddSSurvives ==
    (pc \in {"Selected", "Aborted"} /\ CountOf(alleles, "S") % 2 = 1) =>
        /\ pc = "Selected"
        /\ gen # <<>>
        /\ CountOf(gen, "S") >= 1
        /\ \A coin \in BOOLEAN :
              parse_alleles(gen, coin)[1] + parse_alleles(gen, coin)[2] = TOTAL_ALLELES

C19_Witness ==
    /\ pc = "Selected"
    /\ alleles = generate_alleles(75, 25)
    /\ gen = <<"A", "S">>

====
